---- MODULE Spec2Model ----
(***************************************************************************)
(* Connection lifecycle core of zato.server.connection:                    *)
(*   - BaseConnection: the (re-)connecting loop of one connection          *)
(*     (start, _run, close), checked under SupSpec;                        *)
(*   - BaseConnPoolStore and BasePoolAPI: the named store of pool-based    *)
(*     connections (create, _create, delete, edit, change_password and     *)
(*     the facade's __getitem__), checked under Spec.                      *)
(***************************************************************************)
EXTENDS Naturals, Sequences, FiniteSets, TLC

VARIABLES
    \* ---- BaseConnection ----
    conn,        \* the object's fields set in __init__
    start_pc,    \* where the thread running start() is
    start_exc,   \* the exception start() raised to its caller, or NoExc
    entry,       \* how start() was entered: "none", "start" or "_run"
    close_pc,    \* per caller of close(): where that call is
    log,         \* what start() and close() did so far, in order
    now,         \* datetime.utcnow(), in seconds
    \* ---- BaseConnPoolStore ----
    sessions,         \* self.sessions: name -> item
    lock,             \* self.lock, an RLock: owner and depth
    keep_connecting,  \* self.keep_connecting of the store
    task,             \* the greenlets spawned by create(), each running _create
    op,               \* the callers of delete / edit / change_password / lookup
    torn              \* sessions the resource has torn down (delete_session)

supVars   == <<conn, start_pc, start_exc, entry, close_pc, log, now>>
storeVars == <<sessions, lock, keep_connecting, task, op, torn>>
vars      == <<conn, start_pc, start_exc, entry, close_pc, log, now,
               sessions, lock, keep_connecting, task, op, torn>>

(***************************************************************************)
(* Bounds of the model.                                                    *)
(***************************************************************************)
\* _start() is invoked at most this many times in one start()
MaxStartCalls == 4
\* create() is called at most this many times (one greenlet each)
MaxTasks == 2
\* create_session() is attempted at most this many times by one greenlet
MaxAttempts == 2

(***************************************************************************)
(* BaseConnection                                                          *)
(***************************************************************************)
\* self.reconnect_sleep_time, seconds
reconnect_sleep_time == 5

\* errno values (Linux) of the names used in __init__
ENETUNREACH == 101
ECONNREFUSED == 111

\* self.reconnect_error_numbers as far as the inputs below can tell them apart
reconnect_error_numbers == {ENETUNREACH, ECONNREFUSED}

NoExc == [cls |-> "None", errno |-> 0]

\* What _start() or time.sleep() may raise: an exception's class and errno
StartExceptions ==
    { [cls |-> "EnvironmentError", errno |-> ECONNREFUSED],
      [cls |-> "EnvironmentError", errno |-> 13],   \* EACCES
      [cls |-> "OperationalError", errno |-> 0],
      [cls |-> "KeyboardInterrupt", errno |-> 0] }

KeyboardInterrupt == [cls |-> "KeyboardInterrupt", errno |-> 0]

\* The classes a subclass may put in self.reconnect_exceptions
ExceptionClasses == {"EnvironmentError", "OperationalError"}

Closers == {"ext", "_run"}

\* One entry of the log: the event, the thread it belongs to, the exception
\* raised (if any), the answer of _keep_connecting(e) (if asked) and the value
\* self.keep_connecting had when it happened.
Ev(ev, who, exc, keep) ==
    [ev |-> ev, who |-> who, exc |-> exc, keep |-> keep, kc |-> conn.keep_connecting]

\* An except clause that also catches whatever has an errno of
\* reconnect_error_numbers
CaughtOrNetworkError(e) ==
    e.cls \in conn.reconnect_exceptions \/ e.errno \in reconnect_error_numbers

\* `except self.reconnect_exceptions, e` catches e
Caught(e) == e.cls \in conn.reconnect_exceptions

\* The fields __init__ sets, reconnect_exceptions being the subclass's choice
NewConnection(rx) ==
    [ reconnect_exceptions |-> rx,
      connection_attempts |-> 1,
      first_connection_attempt_time |-> 0,
      keep_connecting |-> TRUE,
      has_valid_connection |-> FALSE ]

\* _on_connected at time t: connection_attempts goes back to 1 if
\* has_valid_connection, first_connection_attempt_time is set anew
\* (lines 115-118; the diagnostic of 109-113 changes nothing). Nothing in
\* start() or anywhere else in the module calls it.
on_connected(c, t) ==
    [c EXCEPT !.connection_attempts = IF c.has_valid_connection THEN 1 ELSE @,
              !.first_connection_attempt_time = t]

NumStartCalls == Cardinality({i \in 1..Len(log) : log[i].ev = "_start"})

\* start() is called, directly or from _run(): line 123, up to the loop's test
CallStart(how) ==
    /\ start_pc = "idle"
    /\ entry' = how
    /\ conn' = [conn EXCEPT !.first_connection_attempt_time = now]
    /\ start_pc' = "loop"
    /\ UNCHANGED <<start_exc, close_pc, log, now>>
    /\ UNCHANGED storeVars

\* `while self.keep_connecting:` and, when it holds, the call of self._start()
LoopTest ==
    /\ start_pc = "loop"
    /\ IF conn.keep_connecting
         THEN /\ NumStartCalls < MaxStartCalls
              /\ start_pc' = "in_start"
              /\ log' = Append(log, Ev("_start", "start", NoExc, FALSE))
         ELSE /\ start_pc' = "returned"
              /\ log' = log
    /\ UNCHANGED <<conn, start_exc, entry, close_pc, now>>
    /\ UNCHANGED storeVars

\* _start() returns: the base class sets has_valid_connection; start() does
\* nothing else and goes back to the loop's test
StartOk ==
    /\ start_pc = "in_start"
    /\ conn' = [conn EXCEPT !.has_valid_connection = TRUE]
    /\ log' = Append(log, Ev("ok", "start", NoExc, FALSE))
    /\ start_pc' = "loop"
    /\ UNCHANGED <<start_exc, entry, close_pc, now>>
    /\ UNCHANGED storeVars

\* The exception start() lets out when _start() raised e
Propagated(e) == e

\* Retry without the sleep between two attempts
RetryNoSleep(e) ==
    /\ conn' = [conn EXCEPT !.connection_attempts = @ + 1]
    /\ start_pc' = "loop"
    /\ start_exc' = start_exc

\* The `except` clause of start() for an exception that is retried
Retry(e) ==
    /\ conn' = [conn EXCEPT !.connection_attempts = @ + 1]
    /\ start_pc' = "sleeping"
    /\ start_exc' = start_exc

\* The exception is not caught, or _keep_connecting(e) said no: it is raised
Reraise(e) ==
    /\ conn' = conn
    /\ start_pc' = "raised"
    /\ start_exc' = Propagated(e)

\* Retry whatever _keep_connecting(e) answered
HandleIgnoringAnswer(e, keep) ==
    IF Caught(e) THEN Retry(e) ELSE Reraise(e)

\* What start() does with e raised by _start(), keep being _keep_connecting(e)
Handle(e, keep) ==
    IF Caught(e) /\ keep THEN Retry(e) ELSE Reraise(e)

\* _start() raises e; _keep_connecting(e), asked only when e is caught, says keep
StartRaises(e, keep) ==
    /\ start_pc = "in_start"
    /\ Caught(e) \/ ~keep
    /\ log' = Append(log, Ev("raise", "start", e, keep))
    /\ Handle(e, keep)
    /\ UNCHANGED <<entry, close_pc, now>>
    /\ UNCHANGED storeVars

\* time.sleep(self.reconnect_sleep_time) returns
SleepDone ==
    /\ start_pc = "sleeping"
    /\ now' = now + reconnect_sleep_time
    /\ log' = Append(log, Ev("sleep", "start", NoExc, FALSE))
    /\ start_pc' = "loop"
    /\ UNCHANGED <<conn, start_exc, entry, close_pc>>
    /\ UNCHANGED storeVars

\* Ctrl-C during time.sleep(): KeyboardInterrupt leaves start()
SleepInterrupted ==
    /\ start_pc = "sleeping"
    /\ log' = Append(log, Ev("interrupt", "start", KeyboardInterrupt, FALSE))
    /\ start_pc' = "raised"
    /\ start_exc' = KeyboardInterrupt
    /\ UNCHANGED <<conn, entry, close_pc, now>>
    /\ UNCHANGED storeVars

\* Whether close() is called by c now: anyone may call it at any time, _run()
\* calls it in its `except KeyboardInterrupt`
MayClose(c) ==
    IF c = "_run"
      THEN entry = "_run" /\ start_pc = "raised" /\ start_exc.cls = "KeyboardInterrupt"
      ELSE TRUE

\* close() that goes to _close() with keep_connecting left as it was
CloseBeginFlagKept(c) ==
    /\ close_pc[c] = "idle"
    /\ MayClose(c)
    /\ conn' = conn
    /\ log' = Append(log, Ev("close", c, NoExc, FALSE))
    /\ close_pc' = [close_pc EXCEPT ![c] = "_close"]
    /\ UNCHANGED <<start_pc, start_exc, entry, now>>
    /\ UNCHANGED storeVars

\* close(), lines 94-98: keep_connecting is cleared
CloseBegin(c) ==
    /\ close_pc[c] = "idle"
    /\ MayClose(c)
    /\ conn' = [conn EXCEPT !.keep_connecting = FALSE]
    /\ log' = Append(log, Ev("close", c, NoExc, FALSE))
    /\ close_pc' = [close_pc EXCEPT ![c] = "_close"]
    /\ UNCHANGED <<start_pc, start_exc, entry, now>>
    /\ UNCHANGED storeVars

\* close(), lines 99-102: self._close() runs, and may raise
CloseTeardown(c, ok) ==
    /\ close_pc[c] = "_close"
    /\ log' = Append(log, Ev("_close", c, NoExc, FALSE))
    /\ close_pc' = [close_pc EXCEPT ![c] = IF ok THEN "done" ELSE "raised"]
    /\ UNCHANGED <<conn, start_pc, start_exc, entry, now>>
    /\ UNCHANGED storeVars

SupNext ==
    \/ \E how \in {"start", "_run"} : CallStart(how)
    \/ LoopTest
    \/ StartOk
    \/ \E e \in StartExceptions, keep \in BOOLEAN : StartRaises(e, keep)
    \/ SleepDone
    \/ SleepInterrupted
    \/ \E c \in Closers : CloseBegin(c)
    \/ \E c \in Closers, ok \in BOOLEAN : CloseTeardown(c, ok)

(***************************************************************************)
(* BaseConnPoolStore and BasePoolAPI                                       *)
(***************************************************************************)
Names == {"A", "B"}

\* zato.common.SECRET_SHADOW
SECRET_SHADOW == "SECRET_SHADOW"
\* gevent.sleep(30) between two attempts of _create
create_sleep_time == 30

\* The password of the configs given to create, and the one change_password sets
OldPassword == "pw1"
NewPassword == "pw2"

Callers == {"c1"}

NoConfig  == [name |-> "None", is_active |-> FALSE, password |-> "None"]
NoSession == [name |-> "None", config |-> NoConfig, by |-> 0]
NoItem    == [config |-> NoConfig, config_no_sensitive |-> NoConfig,
              is_connected |-> FALSE, conn |-> NoSession]

\* The configs create(name, config) is given: config.name is the name
CreateConfigs(name) ==
    { [name |-> name, is_active |-> a, password |-> OldPassword] : a \in BOOLEAN }

\* The configs edit(name, config) is given
EditConfigs ==
    { [name |-> n, is_active |-> TRUE, password |-> OldPassword] : n \in Names }

\* A dict: d[k] = v, and del d[k]
Put(d, k, v) == [n \in (DOMAIN d) \cup {k} |-> IF n = k THEN v ELSE d[n]]
Del(d, k)    == [n \in (DOMAIN d) \ {k} |-> d[n]]
EmptyDict    == [n \in {} |-> NoItem]

IdleOp == [kind |-> "none", pc |-> "idle", name |-> "None", config |-> NoConfig,
           target |-> NoSession, exc |-> "None", result |-> NoItem, names |-> {},
           warned |-> FALSE]

\* BaseConnPoolStore.__init__, and a BaseConnection nobody starts
Init ==
    /\ conn = NewConnection({})
    /\ start_pc = "idle"
    /\ start_exc = NoExc
    /\ entry = "none"
    /\ close_pc = [c \in Closers |-> "idle"]
    /\ log = <<>>
    /\ now = 1
    /\ sessions = EmptyDict
    /\ lock = [owner |-> "none", depth |-> 0]
    /\ keep_connecting = TRUE
    /\ task = <<>>
    /\ op = [c \in Callers |-> IdleOp]
    /\ torn = {}

\* BaseConnection.__init__ of any subclass, and a store nobody uses
SupInit ==
    /\ conn \in {NewConnection(rx) : rx \in SUBSET ExceptionClasses}
    /\ start_pc = "idle"
    /\ start_exc = NoExc
    /\ entry = "none"
    /\ close_pc = [c \in Closers |-> "idle"]
    /\ log = <<>>
    /\ now = 1
    /\ sessions = EmptyDict
    /\ lock = [owner |-> "none", depth |-> 0]
    /\ keep_connecting = TRUE
    /\ task = <<>>
    /\ op = [c \in Callers |-> IdleOp]
    /\ torn = {}

\* RLock: `with self.lock` entered and left by caller c
Acquire(l, c) == [owner |-> c, depth |-> l.depth + 1]
Release(l)    == IF l.depth > 1 THEN [l EXCEPT !.depth = @ - 1]
                                ELSE [owner |-> "none", depth |-> 0]
CanAcquire(c) == lock.owner \in {"none", c}

\* _create, lines 337-338: deepcopy(config) with the password shadowed
Redact(config) == [config EXCEPT !.password = SECRET_SHADOW]

\* An item whose config_no_sensitive is the config itself, not a deep copy:
\* shadowing the password shadows it in both
NewItemShared(config) ==
    [config |-> Redact(config), config_no_sensitive |-> Redact(config),
     is_connected |-> FALSE, conn |-> NoSession]

\* _create, line 340
NewItem(config) ==
    [config |-> config, config_no_sensitive |-> Redact(config),
     is_connected |-> FALSE, conn |-> NoSession]

\* _create, lines 361-363: the `else` clause for a session that was obtained
Connected(item, session) == [item EXCEPT !.conn = session, !.is_connected = TRUE]

\* Whether a greenlet spawned by create(name, ...) is still running _create
InFlight(name) ==
    \E t \in 1..Len(task) : task[t].name = name /\ task[t].pc \notin {"done", "raised"}

\* create(): under the lock, spawn a greenlet running _create and return.
\* Callers serialize the creations of one name: none is in flight for it.
Create(name, config) ==
    /\ Len(task) < MaxTasks
    /\ ~InFlight(name)
    /\ CanAcquire("create")
    /\ LET others == {t \in 1..Len(task) : task[t].pc \notin {"done", "raised"}}
           marked == [t \in 1..Len(task) |->
                        IF t \in others THEN [task[t] EXCEPT !.overlap = TRUE] ELSE task[t]]
       IN  task' = Append(marked,
                          [name |-> name, config |-> config, pc |-> "spawned",
                           attempts |-> 0, fails |-> 0, sleeps |-> 0,
                           slept |-> 0, exc |-> "None",
                           interrupted |-> FALSE, overlap |-> others # {}])
    /\ lock' = Release(Acquire(lock, "create"))
    /\ UNCHANGED <<sessions, keep_connecting, op, torn>>
    /\ UNCHANGED supVars

\* _create leaves its loop with no session bound: the `else` clause reads the
\* local `session`, which was never assigned (UnboundLocalError, line 362);
\* the `except Exception` above does not guard the `else` clause, so the
\* greenlet dies before line 368.
LeaveLoopUnbound(t, cur) ==
    [cur EXCEPT ![t].pc = "raised", ![t].exc = "UnboundLocalError"]

\* A loop test that takes no notice of keep_connecting
LoopTestCreateAnyway(t, cur) ==
    /\ cur[t].attempts < MaxAttempts
    /\ task' = [cur EXCEPT ![t].pc = "create_session", ![t].attempts = @ + 1]

\* `while self.keep_connecting:` of _create, and the call of create_session;
\* cur is what the greenlets are when the test is made
LoopTestCreate(t, cur) ==
    IF keep_connecting
      THEN /\ cur[t].attempts < MaxAttempts
           /\ task' = [cur EXCEPT ![t].pc = "create_session", ![t].attempts = @ + 1]
      ELSE task' = LeaveLoopUnbound(t, cur)

\* The greenlet starts running _create: lines 337-345
TaskStart(t) ==
    /\ t \in 1..Len(task)
    /\ task[t].pc = "spawned"
    /\ LoopTestCreate(t, task)
    /\ UNCHANGED <<sessions, lock, keep_connecting, op, torn>>
    /\ UNCHANGED supVars

\* A success that ends the loop of its own greenlet only, the flag of the
\* store staying as it is
CreateSessionOkFlagKept(t) ==
    /\ t \in 1..Len(task)
    /\ task[t].pc = "create_session"
    /\ keep_connecting' = keep_connecting
    /\ LET session == [name |-> task[t].name, config |-> task[t].config, by |-> t]
           item    == Connected(NewItem(task[t].config), session)
       IN  sessions' = Put(sessions, task[t].name, item)
    /\ task' = [task EXCEPT ![t].pc = "done"]
    /\ UNCHANGED <<lock, op, torn>>
    /\ UNCHANGED supVars

\* create_session returns a session: lines 348-349, the loop's test (now
\* false), the `else` clause and lines 368-370
CreateSessionOk(t) ==
    /\ t \in 1..Len(task)
    /\ task[t].pc = "create_session"
    /\ keep_connecting' = FALSE
    /\ LET session == [name |-> task[t].name, config |-> task[t].config, by |-> t]
           item    == Connected(NewItem(task[t].config), session)
       IN  sessions' = Put(sessions, task[t].name, item)
    /\ task' = [task EXCEPT ![t].pc = "done"]
    /\ UNCHANGED <<lock, op, torn>>
    /\ UNCHANGED supVars

\* create_session raises KeyboardInterrupt: line 352, then the loop ends
CreateSessionInterrupted(t) ==
    /\ t \in 1..Len(task)
    /\ task[t].pc = "create_session"
    /\ keep_connecting' = FALSE
    /\ task' = LeaveLoopUnbound(t, [task EXCEPT ![t].interrupted = TRUE])
    /\ UNCHANGED <<sessions, lock, op, torn>>
    /\ UNCHANGED supVars

\* A failed attempt followed at once by the next one, with no sleep
CreateSessionFailsNoSleep(t) ==
    /\ t \in 1..Len(task)
    /\ task[t].pc = "create_session"
    /\ LoopTestCreate(t, [task EXCEPT ![t].fails = @ + 1])
    /\ UNCHANGED <<sessions, lock, keep_connecting, op, torn>>
    /\ UNCHANGED supVars

\* create_session raises any other Exception: lines 354-356, the failure is
\* logged and gevent.sleep(30) begins
CreateSessionFails(t) ==
    /\ t \in 1..Len(task)
    /\ task[t].pc = "create_session"
    /\ task' = [task EXCEPT ![t].pc = "sleep", ![t].fails = @ + 1]
    /\ UNCHANGED <<sessions, lock, keep_connecting, op, torn>>
    /\ UNCHANGED supVars

\* gevent.sleep(30) returns, back to the loop's test
SleepReturns(t) ==
    /\ t \in 1..Len(task)
    /\ task[t].pc = "sleep"
    /\ LoopTestCreate(t, [task EXCEPT ![t].sleeps = @ + 1,
                                      ![t].slept = @ + create_sleep_time])
    /\ UNCHANGED <<sessions, lock, keep_connecting, op, torn>>
    /\ UNCHANGED supVars

Busy(c) == op[c].pc = "delete_session"

\* BaseConnPoolStore.get
get(name) == IF name \in DOMAIN sessions THEN sessions[name] ELSE NoItem

\* A lookup that does not look at config.is_active
getitemAnyActivity(name) ==
    LET item == get(name)
    IN  IF item = NoItem
          THEN [exc |-> "KeyError", result |-> NoItem, names |-> DOMAIN sessions]
          ELSE [exc |-> "None", result |-> item, names |-> {}]

\* BasePoolAPI.__getitem__: what it raises, what it returns and the names its
\* KeyError message lists
getitem(name) ==
    LET item == get(name)
    IN  IF item = NoItem
          THEN [exc |-> "KeyError", result |-> NoItem, names |-> DOMAIN sessions]
          ELSE IF ~item.config.is_active
                 THEN [exc |-> "Inactive", result |-> NoItem, names |-> {}]
                 ELSE [exc |-> "None", result |-> item, names |-> {}]

\* A lookup through the facade
Lookup(c, name) ==
    /\ ~Busy(c)
    /\ LET r == getitem(name)
       IN  op' = [op EXCEPT ![c] = [IdleOp EXCEPT !.kind = "lookup", !.pc = "done",
                                      !.name = name, !.exc = r.exc,
                                      !.result = r.result, !.names = r.names]]
    /\ UNCHANGED <<sessions, lock, keep_connecting, task, torn>>
    /\ UNCHANGED supVars

\* delete(name) up to the call of delete_session: lines 386-394. For an absent
\* name the Exception of line 389 is caught and logged, and `del` in the
\* `finally` clause raises KeyError out of delete().
Delete(c, name) ==
    /\ ~Busy(c)
    /\ CanAcquire(c)
    /\ IF name \notin DOMAIN sessions
         THEN /\ op' = [op EXCEPT ![c] = [IdleOp EXCEPT !.kind = "delete", !.pc = "done",
                                            !.name = name, !.exc = "KeyError",
                                            !.warned = TRUE]]
              /\ sessions' = sessions
              /\ lock' = Release(Acquire(lock, c))
         ELSE IF ~sessions[name].is_connected
                THEN /\ sessions' = Del(sessions, name)
                     /\ op' = [op EXCEPT ![c] = [IdleOp EXCEPT !.kind = "delete",
                                                   !.pc = "done", !.name = name]]
                     /\ lock' = Release(Acquire(lock, c))
                ELSE /\ op' = [op EXCEPT ![c] = [IdleOp EXCEPT !.kind = "delete",
                                                   !.pc = "delete_session", !.name = name,
                                                   !.target = sessions[name].conn]]
                     /\ lock' = Acquire(lock, c)
                     /\ sessions' = sessions
    /\ UNCHANGED <<keep_connecting, task, torn>>
    /\ UNCHANGED supVars

\* What delete() raises once delete_session has returned or raised, given
\* whether the name is (still) in sessions: `del` in the `finally` clause
DeleteOutcome(present) == IF present THEN "None" ELSE "KeyError"

\* delete() without the `try`: what delete_session raises leaves delete()
\* and the entry stays
DeleteSessionReturnsUnguarded(c, ok) ==
    /\ op[c].kind = "delete"
    /\ op[c].pc = "delete_session"
    /\ torn' = IF ok THEN torn \cup {op[c].target} ELSE torn
    /\ sessions' = IF ok THEN Del(sessions, op[c].name) ELSE sessions
    /\ op' = [op EXCEPT ![c] = [IdleOp EXCEPT !.kind = "delete", !.pc = "done",
                                  !.name = op[c].name, !.warned = ~ok,
                                  !.exc = IF ok THEN "None" ELSE "Exception"]]
    /\ lock' = Release(lock)
    /\ UNCHANGED <<keep_connecting, task>>
    /\ UNCHANGED supVars

\* delete_session returns (ok) or raises an Exception, which is logged
\* (warned): lines 396-399
DeleteSessionReturns(c, ok) ==
    /\ op[c].kind = "delete"
    /\ op[c].pc = "delete_session"
    /\ torn' = IF ok THEN torn \cup {op[c].target} ELSE torn
    /\ sessions' = Del(sessions, op[c].name)
    /\ op' = [op EXCEPT ![c] = [IdleOp EXCEPT !.kind = "delete", !.pc = "done",
                                  !.name = op[c].name, !.warned = ~ok,
                                  !.exc = DeleteOutcome(op[c].name \in DOMAIN sessions)]]
    /\ lock' = Release(lock)
    /\ UNCHANGED <<keep_connecting, task>>
    /\ UNCHANGED supVars

\* edit(name, config) up to the call of delete_session: lines 402-403
Edit(c, name, config) ==
    /\ ~Busy(c)
    /\ CanAcquire(c)
    /\ op' = [op EXCEPT ![c] = [IdleOp EXCEPT !.kind = "edit", !.pc = "delete_session",
                                  !.name = name, !.config = config,
                                  !.target = get(name).conn]]
    /\ lock' = Acquire(lock, c)
    /\ UNCHANGED <<sessions, keep_connecting, task, torn>>
    /\ UNCHANGED supVars

\* change_password(password_data) up to the call of delete_session in edit:
\* lines 407-410 and 402-403. An absent name is a KeyError at line 408.
ChangePassword(c, name, password) ==
    /\ ~Busy(c)
    /\ CanAcquire(c)
    /\ IF name \notin DOMAIN sessions
         THEN /\ op' = [op EXCEPT ![c] = [IdleOp EXCEPT !.kind = "change_password",
                                            !.pc = "done", !.name = name,
                                            !.exc = "KeyError"]]
              /\ lock' = Release(Acquire(lock, c))
         ELSE /\ LET new_config ==
                       [sessions[name].config_no_sensitive EXCEPT !.password = password]
                 IN  op' = [op EXCEPT ![c] = [IdleOp EXCEPT !.kind = "change_password",
                                                !.pc = "delete_session", !.name = name,
                                                !.config = new_config,
                                                !.target = sessions[name].conn]]
              /\ lock' = Acquire(Acquire(lock, c), c)
    /\ UNCHANGED <<sessions, keep_connecting, task, torn>>
    /\ UNCHANGED supVars

\* The lock once every `with self.lock` of the operation has been left
Unwind(l, kind) == IF kind = "change_password" THEN Release(Release(l)) ELSE Release(l)

\* An edit whose call of _create has the three arguments: _create runs in the
\* caller, inside `with self.lock`, and begins an attempt of create_session
EditRunsCreate(c, ok) ==
    /\ op[c].kind \in {"edit", "change_password"}
    /\ op[c].pc = "delete_session"
    /\ torn' = IF ok /\ op[c].target # NoSession THEN torn \cup {op[c].target} ELSE torn
    /\ IF ok
         THEN /\ op' = [op EXCEPT ![c].pc = "create_session"]
              /\ lock' = lock
         ELSE /\ op' = [op EXCEPT ![c] = [IdleOp EXCEPT !.kind = op[c].kind,
                                            !.pc = "done", !.name = op[c].name,
                                            !.exc = "Exception"]]
              /\ lock' = Unwind(lock, op[c].kind)
    /\ UNCHANGED <<sessions, keep_connecting, task>>
    /\ UNCHANGED supVars

\* edit(), lines 403-404, once delete_session has returned (ok) or raised.
\* Line 404 calls self._create(config.name, config): _create (line 336) has
\* three parameters without defaults, so the call raises TypeError before
\* any of _create runs; sessions is left as it was.
EditDeleteSessionReturns(c, ok) ==
    /\ op[c].kind \in {"edit", "change_password"}
    /\ op[c].pc = "delete_session"
    /\ torn' = IF ok /\ op[c].target # NoSession THEN torn \cup {op[c].target} ELSE torn
    /\ op' = [op EXCEPT ![c] = [IdleOp EXCEPT !.kind = op[c].kind, !.pc = "done",
                                  !.name = op[c].name,
                                  !.exc = IF ok THEN "TypeError" ELSE "Exception"]]
    /\ lock' = Unwind(lock, op[c].kind)
    /\ UNCHANGED <<sessions, keep_connecting, task>>
    /\ UNCHANGED supVars

Next ==
    \/ \E n \in Names : \E cfg \in CreateConfigs(n) : Create(n, cfg)
    \/ \E t \in 1..MaxTasks : TaskStart(t)
    \/ \E t \in 1..MaxTasks : CreateSessionOk(t)
    \/ \E t \in 1..MaxTasks : CreateSessionInterrupted(t)
    \/ \E t \in 1..MaxTasks : CreateSessionFails(t)
    \/ \E t \in 1..MaxTasks : SleepReturns(t)
    \/ \E c \in Callers, n \in Names : Lookup(c, n)
    \/ \E c \in Callers, n \in Names : Delete(c, n)
    \/ \E c \in Callers, ok \in BOOLEAN : DeleteSessionReturns(c, ok)
    \/ \E c \in Callers, n \in Names : \E cfg \in EditConfigs : Edit(c, n, cfg)
    \/ \E c \in Callers, n \in Names : ChangePassword(c, n, NewPassword)
    \/ \E c \in Callers, ok \in BOOLEAN : EditDeleteSessionReturns(c, ok)

Spec == Init /\ [][Next]_vars

SupSpec == SupInit /\ [][SupNext]_vars

(***************************************************************************)
(* Properties of BaseConnection, checked under SupSpec                     *)
(***************************************************************************)
\* The events of the thread running start(), in order
StartLog == SelectSeq(log, LAMBDA x : x.who = "start")

\* A raise of _start() that start() is to retry: caught by
\* reconnect_exceptions and _keep_connecting(e) answered true
Recoverable(x) ==
    x.ev = "raise" /\ x.exc.cls \in conn.reconnect_exceptions /\ x.keep

\* How many of the first n events of start() satisfy P
CountUpTo(P(_), n) == Cardinality({i \in 1..n : P(StartLog[i])})

IsCall(x)  == x.ev = "_start"
IsSleep(x) == x.ev = "sleep"
IsOk(x)    == x.ev = "ok"

\* The position in StartLog of the first successful _start(), 0 if none
FirstOk ==
    IF \E i \in 1..Len(StartLog) : IsOk(StartLog[i])
      THEN CHOOSE i \in 1..Len(StartLog) :
             IsOk(StartLog[i]) /\ \A j \in 1..(i-1) : ~IsOk(StartLog[j])
      ELSE 0

\* k: the recoverable errors before the first success
FailuresBeforeOk == CountUpTo(Recoverable, FirstOk)

\* C3 as stated: once _start() has failed k times with recoverable errors and
\* then succeeded, start() has made exactly k+1 calls of _start() and slept k
\* times, and makes no further call of _start() after the successful one.
C3_ReturnsAfterSuccess ==
    FirstOk > 0 =>
        /\ CountUpTo(IsCall, Len(StartLog)) = FailuresBeforeOk + 1
        /\ CountUpTo(IsSleep, Len(StartLog)) = FailuresBeforeOk

\* C3 amended: up to and including the first success start() has made exactly
\* k+1 calls of _start() and slept exactly k times, connection_attempts having
\* counted the k failures; the success does not end the loop: what start()
\* does next is call _start() again, and it returns normally only once
\* keep_connecting has been cleared.
C3_RetryCount ==
    /\ FirstOk > 0 =>
        /\ CountUpTo(IsCall, FirstOk) = FailuresBeforeOk + 1
        /\ CountUpTo(IsSleep, FirstOk) = FailuresBeforeOk
        /\ conn.connection_attempts >= 1 + FailuresBeforeOk
    /\ \A i \in 1..(Len(StartLog) - 1) :
          IsOk(StartLog[i]) => IsCall(StartLog[i+1]) /\ StartLog[i+1].kc
    /\ start_pc = "returned" => ~conn.keep_connecting

\* Two recoverable errors, a success, and the call of _start() that follows it
C3_Witness ==
    /\ FirstOk > 0
    /\ FailuresBeforeOk = 2
    /\ CountUpTo(IsCall, Len(StartLog)) = FailuresBeforeOk + 2

\* C4: an error of _start() that is not recoverable (not caught by
\* reconnect_exceptions, or _keep_connecting(e) answered false) ends start():
\* that same error is raised to the caller, nothing follows it in start() (no
\* sleep, no further _start()), and connection_attempts was not incremented
\* for it.
C4_FatalPropagates ==
    \A i \in 1..Len(StartLog) :
        (StartLog[i].ev = "raise" /\ ~Recoverable(StartLog[i])) =>
            /\ i = Len(StartLog)
            /\ start_pc = "raised"
            /\ start_exc = StartLog[i].exc
            /\ conn.connection_attempts = 1 + CountUpTo(Recoverable, i)
            /\ CountUpTo(IsSleep, i) = CountUpTo(Recoverable, i)

\* A caught error that _keep_connecting refuses, after one retried error
C4_Witness ==
    /\ start_pc = "raised"
    /\ Len(StartLog) > 0
    /\ StartLog[Len(StartLog)].ev = "raise"
    /\ StartLog[Len(StartLog)].exc.cls \in conn.reconnect_exceptions
    /\ ~StartLog[Len(StartLog)].keep
    /\ CountUpTo(Recoverable, Len(StartLog)) = 1

\* How many times close() called by c has run _close()
NumTeardowns(c) ==
    Cardinality({i \in 1..Len(log) : log[i].ev = "_close" /\ log[i].who = c})

\* C10: whatever start() is doing, close() clears keep_connecting before it
\* runs _close(), runs _close() exactly once, and once close() has been called
\* no attempt of _start() begins; a KeyboardInterrupt out of start() in _run()
\* (and nothing else there) is followed by this close().
C10_Close ==
    /\ \A i \in 1..Len(log) :
          log[i].ev = "_close" =>
              /\ ~log[i].kc
              /\ \E j \in 1..(i-1) : log[j].ev = "close" /\ log[j].who = log[i].who
    /\ \A c \in Closers :
          NumTeardowns(c) = IF close_pc[c] \in {"done", "raised"} THEN 1 ELSE 0
    /\ \A i \in 1..Len(log) :
          log[i].ev = "close" => \A j \in (i+1)..Len(log) : log[j].ev # "_start"
    /\ close_pc["_run"] # "idle" =>
          entry = "_run" /\ start_pc = "raised" /\ start_exc = KeyboardInterrupt
    /\ (entry = "_run" /\ start_pc = "raised" /\ start_exc = KeyboardInterrupt
            /\ close_pc["_run"] = "idle") => ENABLED CloseBegin("_run")

\* close() was called from outside while start() slept between two attempts,
\* the sleep was then interrupted and _run() called close() as well
C10_Witness ==
    /\ close_pc["ext"] = "done"
    /\ close_pc["_run"] = "done"
    /\ \E i \in 1..Len(log) : log[i].ev = "_start"
    /\ \E i \in 1..Len(log) : log[i].ev = "interrupt" /\ ~log[i].kc

(***************************************************************************)
(* Properties of BaseConnPoolStore and BasePoolAPI, checked under Spec     *)
(***************************************************************************)
\* The greenlet t has left _create, by returning or by raising
Terminated(t) == task[t].pc \in {"done", "raised"}

\* Greenlet t leaves _create in this step, not having been interrupted by a
\* KeyboardInterrupt
Finishes(t) ==
    /\ t \in 1..Len(task)
    /\ ~Terminated(t)
    /\ Terminated(t)'
    /\ ~task'[t].interrupted

\* No create_session call of the store was ended by a KeyboardInterrupt
NoneInterrupted == \A t \in 1..Len(task) : ~task[t].interrupted

\* C1 as stated: of two creations of distinct names that were in flight at
\* the same time (no KeyboardInterrupt occurring), each ends with sessions[name] holding its config and the
\* session opened for that name with that config, is_connected being true.
C1_ConcurrentCreates ==
    [][\A t \in 1..MaxTasks :
          (Finishes(t) /\ task'[t].overlap /\ NoneInterrupted') =>
              /\ task'[t].name \in DOMAIN sessions'
              /\ sessions'[task'[t].name].config = task'[t].config
              /\ sessions'[task'[t].name].is_connected
              /\ sessions'[task'[t].name].conn.name = task'[t].name
              /\ sessions'[task'[t].name].conn.config = task'[t].config]_vars

\* C2 as stated: a creation with an active config, issued when no other
\* creation is in flight (others may have completed before) and met by no
\* KeyboardInterrupt, ends with the
\* facade's lookup of the name returning a connected entry holding the config.
C2_RoundTrip ==
    [][\A t \in 1..MaxTasks :
          (Finishes(t) /\ ~task'[t].overlap /\ task'[t].config.is_active
                /\ NoneInterrupted') =>
              /\ getitem(task[t].name)'.exc = "None"
              /\ getitem(task[t].name)'.result.is_connected
              /\ getitem(task[t].name)'.result.config = task'[t].config]_vars

\* delete(name) of caller c returns or raises in this step, delete_session
\* having raised (which is what the warning of line 397 then tells)
DeleteEndsAfterTeardownRaised(c) ==
    /\ op[c].kind = "delete"
    /\ op[c].pc = "delete_session"
    /\ op'[c].pc = "done"
    /\ op'[c].warned

\* C5: delete(name) of a present, connected entry whose delete_session raises
\* removes the name, raises nothing, leaves the lock released and leaves the
\* entries of the other names as they were.
C5_DeleteTeardownRaises ==
    [][\A c \in Callers :
          DeleteEndsAfterTeardownRaised(c) =>
              /\ op[c].name \in DOMAIN sessions
              /\ op[c].name \notin DOMAIN sessions'
              /\ op'[c].exc = "None"
              /\ lock'.owner = "none" /\ lock'.depth = 0
              /\ DOMAIN sessions' = (DOMAIN sessions) \ {op[c].name}
              /\ \A n \in DOMAIN sessions' : sessions'[n] = sessions[n]]_vars

\* A delete whose teardown raised has returned, another entry being there
C5_Witness ==
    \E c \in Callers :
        /\ op[c].kind = "delete" /\ op[c].pc = "done" /\ op[c].warned
        /\ op[c].exc = "None"
        /\ op[c].name \notin DOMAIN sessions
        /\ DOMAIN sessions # {}
        /\ lock.owner = "none"

\* edit() or change_password() of caller c ends in this step, delete_session
\* not having raised
EditEnds(c, kind) ==
    /\ op[c].kind = kind
    /\ op[c].pc = "delete_session"
    /\ op'[c].pc = "done"
    /\ op'[c].exc # "Exception"

\* C6 as stated: change_password on an existing entry leaves sessions[name]
\* with the previous config but for the password, which is the new plaintext,
\* and with a config_no_sensitive that holds the shadow and not the plaintext.
C6_ChangePassword ==
    [][\A c \in Callers :
          EditEnds(c, "change_password") =>
              /\ op'[c].exc = "None"
              /\ op[c].name \in DOMAIN sessions'
              /\ sessions'[op[c].name].config =
                     [sessions[op[c].name].config EXCEPT !.password = NewPassword]
              /\ sessions'[op[c].name].config_no_sensitive.password = SECRET_SHADOW]_vars

\* C7: in every state the facade's lookup of a name raises KeyError, listing
\* the names in sessions, iff the name is absent; raises Inactive iff the name
\* is present with config.is_active false; and otherwise returns the entry
\* stored under the name; a lookup leaves sessions as it was.
C7_Lookup ==
    /\ [](\A n \in Names :
            LET r == getitem(n)
            IN  /\ r.exc \in {"KeyError", "Inactive", "None"}
                /\ r.exc = "KeyError" <=> n \notin DOMAIN sessions
                /\ r.exc = "KeyError" => r.names = DOMAIN sessions
                /\ r.exc = "Inactive" <=>
                      (n \in DOMAIN sessions /\ ~sessions[n].config.is_active)
                /\ r.exc = "None" => r.result = sessions[n])
    /\ [][\A c \in Callers :
            (op'[c] # op[c] /\ op'[c].kind = "lookup") =>
                /\ sessions' = sessions
                /\ op'[c].exc = getitem(op'[c].name).exc
                /\ op'[c].result = getitem(op'[c].name).result
                /\ op'[c].names = getitem(op'[c].name).names]_vars

\* A lookup has just failed with Inactive for a connected entry, the other
\* name being absent
C7_Witness ==
    \E c \in Callers :
        /\ op[c].kind = "lookup" /\ op[c].exc = "Inactive"
        /\ op[c].name \in DOMAIN sessions
        /\ sessions[op[c].name].is_connected
        /\ DOMAIN sessions # Names

\* C8 as stated: edit(name, config) of an existing, connected entry tears the
\* old session down and then returns the entry _create made from config,
\* which is what sessions[config.name] holds.
C8_Edit ==
    [][\A c \in Callers :
          (EditEnds(c, "edit") /\ op[c].target # NoSession) =>
              /\ op[c].target \in torn'
              /\ op'[c].exc = "None"
              /\ op[c].config.name \in DOMAIN sessions'
              /\ op'[c].result = sessions'[op[c].config.name]
              /\ op'[c].result.config = op[c].config
              /\ op'[c].result.conn # op[c].target]_vars

\* C9: once keep_connecting is cleared it stays cleared, no greenlet begins a
\* create_session call any more, and a greenlet that makes its loop test
\* (on starting, or on waking from its sleep) leaves the loop.
C9_StoreWideStop ==
    [][~keep_connecting =>
          /\ ~keep_connecting'
          /\ \A t \in 1..Len(task) :
                /\ task'[t].attempts = task[t].attempts
                /\ task'[t].pc = "create_session" => task[t].pc = "create_session"
                /\ (task[t].pc \in {"spawned", "sleep"} /\ task'[t].pc # task[t].pc)
                      => task'[t].pc = "raised"
          /\ \A t \in (Len(task) + 1)..Len(task') : task'[t].attempts = 0]_vars

\* With keep_connecting cleared: a greenlet that was sleeping after a failed
\* attempt has left its loop, and one started afterwards made no attempt
C9_Witness ==
    /\ ~keep_connecting
    /\ \E t \in 1..Len(task) :
          task[t].pc = "raised" /\ ~task[t].interrupted /\ task[t].sleeps = 1

\* C11: a _create greenlet whose create_session failed k times and then
\* succeeded has made exactly k+1 calls of create_session and slept the 30
\* seconds exactly k times, no failure of an attempt has left it, and it ends
\* with sessions[name] present and connected.
C11_RetryCounts ==
    [][\A t \in 1..Len(task) :
          (task[t].pc = "create_session" /\ task'[t].pc = "done") =>
              LET k == task[t].fails
              IN  /\ task'[t].fails = k
                  /\ task'[t].attempts = k + 1
                  /\ task'[t].sleeps = k
                  /\ task'[t].slept = k * create_sleep_time
                  /\ task'[t].exc = "None"
                  /\ task[t].name \in DOMAIN sessions'
                  /\ sessions'[task[t].name].is_connected
                  /\ sessions'[task[t].name].conn.by = t]_vars

\* A greenlet has stored a connected entry after one failed attempt
C11_Witness ==
    \E t \in 1..Len(task) :
        /\ task[t].pc = "done"
        /\ task[t].fails = 1
        /\ task[t].attempts = 2
        /\ task[t].name \in DOMAIN sessions
        /\ sessions[task[t].name].conn.by = t

LeavesCreate(t) ==
    /\ t \in 1..Len(task)
    /\ ~Terminated(t)
    /\ Terminated(t)'

\* C13 as stated: every _create greenlet that leaves its loop finishes without
\* raising and has assigned its entry to sessions[name]; when it obtained no
\* session, that entry has is_connected false and no conn.
C13_StoreBack ==
    [][\A t \in 1..MaxTasks :
          LeavesCreate(t) =>
              /\ task'[t].pc = "done"
              /\ task'[t].exc = "None"
              /\ task'[t].name \in DOMAIN sessions'
              /\ LET item == sessions'[task'[t].name]
                 IN  /\ item.config = task'[t].config
                     /\ \/ item.is_connected /\ item.conn.by = t
                        \/ ~item.is_connected /\ item.conn = NoSession]_vars

\* The callers that are in an attempt of create_session or in the sleep that
\* follows a failed one, as a caller inside edit or change_password would be
\* were _create to run there. The greenlets of create are never callers: the
\* lock has no way of being theirs.
ConnectingCallers == {c \in Callers : op[c].pc \in {"create_session", "sleep"}}

UnderLock ==
    \E c \in Callers :
        /\ op'[c] # op[c]
        /\ \/ lock.owner = c
           \/ op'[c].kind = "delete" /\ CanAcquire(c)

\* C15 as stated: every insertion into sessions and every removal from it is
\* made while the one that makes it holds the lock of the store, the insertion
\* made by a spawned _create included.
C15_MutationsUnderLock == [][sessions' # sessions => UnderLock]_vars

\* Caller c calls delete(name) in this step for a name that is not in sessions
DeletesAbsent(c) ==
    /\ op[c].pc # "delete_session"
    /\ op'[c] # op[c]
    /\ op'[c].kind = "delete"
    /\ op'[c].name \notin DOMAIN sessions

\* C16 as stated: delete(name) for a name that is not in sessions raises
\* nothing, makes no call of delete_session, leaves sessions as it was and
\* leaves the lock released.
C16_DeleteAbsent ==
    [][\A c \in Callers :
          DeletesAbsent(c) =>
              /\ op'[c].pc = "done"
              /\ op'[c].exc = "None"
              /\ torn' = torn
              /\ sessions' = sessions
              /\ lock'.owner = "none"]_vars

\* Whether start() went on after the i-th of its events, a raise of _start():
\* it slept (or was in the sleep when interrupted), or is about to
Retried(i) ==
    IF i < Len(StartLog) THEN StartLog[i + 1].ev \in {"sleep", "interrupt"}
                         ELSE start_pc = "sleeping"

\* C17 as stated: an error of _start() whose errno is one of
\* reconnect_error_numbers is retried with the sleep and never leaves start(),
\* whether or not reconnect_exceptions was given anything; so is an error of
\* a class of reconnect_exceptions (_keep_connecting, if asked, not refusing).
C17_NetworkErrorsRetried ==
    \A i \in 1..Len(StartLog) :
        LET x == StartLog[i]
        IN  ( /\ x.ev = "raise"
              /\ x.exc.errno \in reconnect_error_numbers \/ x.exc.cls \in conn.reconnect_exceptions
              /\ x.exc.cls \in conn.reconnect_exceptions => x.keep ) =>
                /\ Retried(i)
                /\ start_exc # x.exc

\* C17 amended: an error of _start() is retried with the sleep exactly when
\* its class is one of reconnect_exceptions and _keep_connecting(e) answers
\* true; any other error leaves start() as it is, one whose errno is in
\* reconnect_error_numbers included: the errno plays no part in start().
C17_Classification ==
    \A i \in 1..Len(StartLog) :
        LET x == StartLog[i]
        IN  x.ev = "raise" =>
              /\ Retried(i) <=> (x.exc.cls \in conn.reconnect_exceptions /\ x.keep)
              /\ ~Retried(i) =>
                    /\ i = Len(StartLog)
                    /\ start_pc = "raised"
                    /\ start_exc = x.exc

\* An error of a class of reconnect_exceptions was retried, and after the
\* sleep an error with errno ECONNREFUSED, of a class that is not in
\* reconnect_exceptions, has left start()
C17_Witness ==
    /\ Len(StartLog) >= 5
    /\ Recoverable(StartLog[2])
    /\ StartLog[2].exc.errno \notin reconnect_error_numbers
    /\ StartLog[3].ev = "sleep"
    /\ StartLog[5].ev = "raise"
    /\ StartLog[5].exc.errno = ECONNREFUSED
    /\ StartLog[5].exc.cls \notin conn.reconnect_exceptions
    /\ start_pc = "raised"
    /\ start_exc = StartLog[5].exc

\* An attempt of _start() inside start() succeeds in this step
StartSucceeds ==
    /\ start_pc = "in_start"
    /\ Len(log') = Len(log) + 1
    /\ log'[Len(log')].ev = "ok"

\* C18 as stated: whenever an attempt of _start() inside start() succeeds,
\* _on_connected is invoked for it, so that right after the success
\* connection_attempts is 1 and first_connection_attempt_time is the time of
\* the success, the start of a new streak.
C18_StreakReset ==
    [][StartSucceeds =>
          /\ conn' = on_connected([conn EXCEPT !.has_valid_connection = TRUE], now')
          /\ conn'.connection_attempts = 1
          /\ conn'.first_connection_attempt_time = now']_vars

\* Some _create has succeeded
SomeSucceeded == \E t \in 1..Len(task) : task[t].pc = "done"

\* Greenlet t has its create_session call end in this step with a session or
\* with a KeyboardInterrupt
SucceedsOrInterrupted(t) ==
    /\ task[t].pc = "create_session"
    /\ task'[t].pc = "done" \/ task'[t].interrupted

\* C19: keep_connecting of the store starts true; it becomes false only in a
\* step where a _create has its create_session succeed or be interrupted by
\* KeyboardInterrupt; no step of create, _create, edit, delete or
\* change_password makes it true again; so it is false in every state
\* reached once any _create has succeeded.
C19_FlagMonotone ==
    /\ keep_connecting = TRUE
    /\ [][/\ ~keep_connecting => ~keep_connecting'
          /\ (keep_connecting /\ ~keep_connecting') =>
                \E t \in 1..Len(task) : SucceedsOrInterrupted(t)
          /\ (\E t \in 1..Len(task) : SucceedsOrInterrupted(t)) => ~keep_connecting'
          /\ SomeSucceeded' => ~keep_connecting']_vars

\* After a success the flag is false, and stays so through a change_password
\* that ended and a later create whose greenlet made no attempt
C19_Witness ==
    /\ ~keep_connecting
    /\ SomeSucceeded
    /\ NoneInterrupted
    /\ \E c \in Callers : op[c].kind = "change_password" /\ op[c].pc = "done"
    /\ \E t \in 1..Len(task) : task[t].pc = "raised" /\ task[t].attempts = 0

\* C20 as stated: whatever create, edit, delete and change_password calls
\* have been made, those that ended in an error included, no entry of
\* sessions has is_connected true while delete_session has torn its session
\* down; an entry that a lookup returns as connected has a session still open.
C20_NoStaleConnected ==
    /\ \A n \in DOMAIN sessions :
          sessions[n].is_connected => sessions[n].conn \notin torn
    /\ \A n \in Names :
          (getitem(n).exc = "None" /\ getitem(n).result.is_connected) =>
              getitem(n).result.conn \notin torn

====
